---- MODULE Spec2Model ----
(***************************************************************************)
(* A model of the smart-store data preparation and warehouse load:         *)
(*   scripts/etl_to_dw.py                              (Spec)              *)
(*   scripts/data_preparation/prepare_customers_data.py (SpecCleaning)     *)
(*   scripts/data_preparation/prepare_products_data.py  (SpecCleaning)     *)
(***************************************************************************)
EXTENDS Integers, Sequences, FiniteSets, TLC

(***************************************************************************)
(* Bounds of the model.                                                     *)
(***************************************************************************)
\* a prepared file holds at most MaxBatch rows
MaxBatch == 2
\* a customers table handed to the cleaning holds at most MaxCustRows rows
MaxCustRows == 3
\* a caller applies at most MaxCustCalls customers cleaning functions in a row
MaxCustCalls == 3
\* a products table handed to the cleaning holds at most MaxProdRows rows
MaxProdRows == 4
\* a caller applies at most MaxProdCalls products cleaning functions in a row
MaxProdCalls == 2

VARIABLES
    \* ---- etl_to_dw.py ----
    db,         \* the committed content of the warehouse file: table -> set of rows
    cur,        \* the content as the open connection sees it (with uncommitted changes)
    schema,     \* whether the three tables exist in the warehouse file
    conn,       \* the local name conn of load_data_to_db: "unbound", "open", "closed"
    pc,         \* position in load_data_to_db
    exc,        \* the exception propagating out of load_data_to_db, or "none"
    deleted,    \* the DELETE statements executed in this run, in order
    attempted,  \* the tables whose insert_* has been called in this run
    loaded,     \* the tables whose to_sql raised nothing in this run
    committed,  \* whether conn.commit() of line 135 has been executed in this run
    run,        \* "first" or "second" run of load_data_to_db
    after1,     \* the committed content at the end of the first run
    faulted,    \* whether a step outside the insert_* calls has raised in some run
    prior,      \* the committed content before the first run
    batch,      \* the prepared files: table -> sequence of primary keys, in file order
    \* ---- prepare_customers_data.py ----
    centry,     \* "main": main() from line 166 on; "call": the functions called one by one
    cinput,     \* the table read from customers.csv
    ctab,       \* the table the name df refers to
    carg,       \* the table passed to the last function called, as it was at the call
    cargNow,    \* that same table object after the call
    ccalls,     \* the functions applied so far, in order
    cerr,       \* the exception raised by the last step, or "none"
    cpc,        \* position in main(), or "call"
    cfile,      \* the table written to customers_cleaned.csv, or "none"
    \* ---- prepare_products_data.py ----
    pentry,     \* "main": main() from line 248 on; "call": the functions called one by one
    pcow,       \* whether the installed pandas runs with copy-on-write
    pinput,     \* the table read from products_data.csv
    ptab,       \* the table the name df refers to
    parg,       \* the table passed to the last function called, as it was at the call
    pargNow,    \* that same table object after the call
    pcalls,     \* the functions applied so far, in order
    perr,       \* the exception raised by the last step, or "none"
    ppc,        \* position in main(), or "call"
    pfile       \* the table written to products_cleaned.csv, or "none"

dwVars == <<db, cur, schema, conn, pc, exc, deleted, attempted, loaded,
            committed, run, after1, faulted, prior, batch>>

custVars == <<centry, cinput, ctab, carg, cargNow, ccalls, cerr, cpc, cfile>>

prodVars == <<pentry, pcow, pinput, ptab, parg, pargNow, pcalls, perr, ppc, pfile>>

vars == <<dwVars, custVars, prodVars>>

\* what the steps of one script leave alone: the state of the other scripts
notDW == <<custVars, prodVars>>

notCust == <<dwVars, prodVars>>

notProd == <<dwVars, custVars>>

(***************************************************************************)
(* Text: a string is the sequence of its characters.                       *)
(***************************************************************************)
RECURSIVE LStrip(_)
LStrip(s) == IF s # <<>> /\ Head(s) = " " THEN LStrip(Tail(s)) ELSE s

RECURSIVE RStrip(_)
RStrip(s) ==
    IF s # <<>> /\ s[Len(s)] = " " THEN RStrip(SubSeq(s, 1, Len(s) - 1)) ELSE s

\* str.strip()
Strip(s) == RStrip(LStrip(s))

LowerChar(c) ==
    CASE c = "A" -> "a" [] c = "C" -> "c" [] c = "D" -> "d" [] c = "I" -> "i"
      [] c = "N" -> "n" [] c = "P" -> "p" [] c = "S" -> "s" [] c = "U" -> "u"
      [] OTHER -> c

\* str.lower()
Lower(s) == [i \in DOMAIN s |-> LowerChar(s[i])]

\* str.replace(" ", "_")
SpacesToUnderscores(s) == [i \in DOMAIN s |-> IF s[i] = " " THEN "_" ELSE s[i]]

(***************************************************************************)
(* Tables: a table is its header (the column names, in order) and its rows; *)
(* a row is the tuple of its cells, a cell is NaN or Cell(v).               *)
(***************************************************************************)
NaN == <<>>

Cell(v) == <<v>>

Table(cols, rows) == [cols |-> cols, rows |-> rows]

\* the position of the column called name, 0 when the table has none
ColumnOf(cols, name) ==
    IF \E i \in DOMAIN cols : cols[i] = name
    THEN CHOOSE i \in DOMAIN cols :
            cols[i] = name /\ \A j \in 1..(i - 1) : cols[j] # name
    ELSE 0

\* the rows at the positions of keep, in their order
RowsAt(rows, keep) ==
    LET F[i \in 0..Len(rows)] ==
            IF i = 0 THEN <<>>
            ELSE IF i \in keep THEN Append(F[i - 1], rows[i]) ELSE F[i - 1]
    IN  F[Len(rows)]

\* every sequence of at most n elements of S
SeqsUpTo(S, n) == UNION {[1..k -> S] : k \in 0..n}

\* A duplicate test that compares the first column of subset only.
DuplicatedOnFirstColumn(rows, subset) ==
    {i \in DOMAIN rows :
        \E j \in 1..(i - 1) :
            \A c \in {d \in subset : \A e \in subset : d <= e} :
                rows[j][c] = rows[i][c]}

\* DataFrame.duplicated(subset): the positions of the rows whose cells in
\* the columns of subset repeat those of an earlier row (NaN equals NaN).
Duplicated(rows, subset) ==
    {i \in DOMAIN rows :
        \E j \in 1..(i - 1) : \A c \in subset : rows[j][c] = rows[i][c]}

\* A removal that deletes while it walks the rows: the row after a deleted
\* row is skipped.
DropDuplicatesSkipping(rows, subset) ==
    LET dup == Duplicated(rows, subset)
    IN  RowsAt(rows, {i \in DOMAIN rows : i \notin dup \/ (i - 1) \in dup})

\* A removal that keeps the last row of every group of equal rows.
DropDuplicatesKeepLast(rows, subset) ==
    RowsAt(rows,
           {i \in DOMAIN rows :
               \A j \in (i + 1)..Len(rows) :
                   \E c \in subset : rows[j][c] # rows[i][c]})

\* DataFrame.drop_duplicates(subset), keep="first"
DropDuplicates(rows, subset) ==
    RowsAt(rows, DOMAIN rows \ Duplicated(rows, subset))

\* what a cleaning function did: the exception it raised ("none" when it
\* returned), the table it returned, and its argument as it is afterwards
Outcome(err, out, arg) == [err |-> err, out |-> out, arg |-> arg]

(***************************************************************************)
(* scripts/data_preparation/prepare_customers_data.py                       *)
(***************************************************************************)
CustomerID == <<"C", "u", "s", "t", "o", "m", "e", "r", "I", "D">>

Name == <<"N", "a", "m", "e">>

AmountSpent == <<"A", "m", "o", "u", "n", "t", "S", "p", "e", "n", "t">>

\* line 116: the value that fills a missing Name
Unknown == "Unknown"

\* line 135: the bounds of the valid range of AmountSpent
AmountLow == 200

AmountHigh == 10000

\* the headers of customers.csv: as the warehouse loader names them, with
\* stray blanks, and already in lower case
RawCustHeader == <<CustomerID, Name, AmountSpent>>

BlankCustHeader ==
    <<<<" ">> \o CustomerID, Name,
      <<"A", "m", "o", "u", "n", "t", " ", "S", "p", "e", "n", "t">>>>

LowerCustHeader == <<Lower(CustomerID), Lower(Name), Lower(AmountSpent)>>

CustHeaders == {RawCustHeader, BlankCustHeader, LowerCustHeader}

\* a customers row: CustomerID, Name, AmountSpent
CustRow(id, name, amount) == <<id, name, amount>>

CustRows ==
    { CustRow(Cell(1), Cell("Al"), Cell(50)),
      CustRow(Cell(2), NaN,        Cell(5000)),
      CustRow(NaN,     Cell("Cy"), Cell(300)),
      CustRow(Cell(1), Cell("Al"), Cell(300)),
      CustRow(Cell(1), Cell("Al"), Cell(AmountLow)),
      CustRow(Cell(2), Cell("Bo"), Cell(AmountHigh)),
      CustRow(Cell(2), Cell("Bo"), NaN),
      CustRow(Cell(2), Cell("Bo"), Cell(9999)) }

\* the customers table of the cleaning scenario: ids 1, 1, 2, null with
\* amounts 50, 50, 5000, 300
ScenarioCustRows ==
    << CustRow(Cell(1), Cell("Al"), Cell(50)),
       CustRow(Cell(1), Cell("Al"), Cell(50)),
       CustRow(Cell(2), NaN,        Cell(5000)),
       CustRow(NaN,     Cell("Cy"), Cell(300)) >>

CustInputs ==
    {Table(h, r) : h \in CustHeaders,
                   r \in SeqsUpTo(CustRows, MaxCustRows) \cup {ScenarioCustRows}}

\* line 168: df.columns.str.strip().str.lower().str.replace(" ", "_")
NormalizeCustomerColumns(cols) ==
    [i \in DOMAIN cols |-> SpacesToUnderscores(Lower(Strip(cols[i])))]

\* lines 94-97: df.drop_duplicates(), a new table
CustRemoveDuplicates(df) ==
    Outcome("none", Table(df.cols, DropDuplicates(df.rows, DOMAIN df.cols)), df)

\* line 116: Series.fillna('Unknown') on the column at position c
FillName(rows, c) ==
    [i \in DOMAIN rows |->
        [rows[i] EXCEPT ![c] = IF @ = NaN THEN Cell(Unknown) ELSE @]]

\* lines 109-120: the column Name of the argument is assigned in place
\* (line 116), then dropna returns a new table (line 118).
CustHandleMissingValues(df) ==
    LET n == ColumnOf(df.cols, Name)
        k == ColumnOf(df.cols, CustomerID)
        filled == Table(df.cols, FillName(df.rows, n))
    IN  IF n = 0 THEN Outcome("KeyError", df, df)
        ELSE IF k = 0 THEN Outcome("KeyError", filled, filled)
        ELSE Outcome("none",
                     Table(df.cols,
                           RowsAt(filled.rows,
                                  {i \in DOMAIN filled.rows :
                                      filled.rows[i][k] # NaN})),
                     filled)

\* A range test that lets the lower bound itself through.
CustInRangeInclusive(v) == v # NaN /\ v[1] >= AmountLow /\ v[1] < AmountHigh

\* line 135: (df['AmountSpent'] > 200) & (df['AmountSpent'] < 10000); a
\* comparison with NaN is False
CustInRange(v) == v # NaN /\ v[1] > AmountLow /\ v[1] < AmountHigh

\* lines 131-140: a new table of the rows in range
CustRemoveOutliers(df) ==
    LET a == ColumnOf(df.cols, AmountSpent)
    IN  IF a = 0 THEN Outcome("KeyError", df, df)
        ELSE Outcome("none",
                     Table(df.cols,
                           RowsAt(df.rows,
                                  {i \in DOMAIN df.rows :
                                      CustInRange(df.rows[i][a])})),
                     df)

CustFunction(f, df) ==
    CASE f = "remove_duplicates" -> CustRemoveDuplicates(df)
      [] f = "handle_missing_values" -> CustHandleMissingValues(df)
      [] f = "remove_outliers" -> CustRemoveOutliers(df)

InitCustomers ==
    /\ centry \in {"main", "call"}
    /\ cinput \in CustInputs
    /\ ctab = cinput
    /\ carg = cinput
    /\ cargNow = cinput
    /\ ccalls = <<>>
    /\ cerr = "none"
    /\ cpc = IF centry = "main" THEN "loaded" ELSE "call"
    /\ cfile = "none"

\* main(), lines 166-169: the column names are cleaned in place
CustNormalizeColumns ==
    /\ centry = "main"
    /\ cpc = "loaded"
    /\ ctab' = Table(NormalizeCustomerColumns(ctab.cols), ctab.rows)
    /\ cpc' = "normalized"
    /\ UNCHANGED <<notCust, centry, cinput, carg, cargNow, ccalls, cerr, cfile>>

\* df = f(df): in main() at position at (lines 177, 180, 183), or called by
\* itself.  When f raises, df keeps referring to the argument.  main() saves
\* the table after its last function (line 186).
CustApply(f, at, next) ==
    /\ cerr = "none"
    /\ \/ centry = "main" /\ cpc = at
       \/ centry = "call" /\ Len(ccalls) < MaxCustCalls
    /\ \E r \in {CustFunction(f, ctab)} :
           /\ carg' = ctab
           /\ cargNow' = r.arg
           /\ cerr' = r.err
           /\ ctab' = IF r.err = "none" THEN r.out ELSE r.arg
           /\ cpc' = IF centry = "call" THEN "call"
                     ELSE IF r.err = "none" THEN next ELSE "raised"
           /\ cfile' = IF centry = "main" /\ r.err = "none" /\ next = "saved"
                       THEN r.out ELSE cfile
    /\ ccalls' = Append(ccalls, f)
    /\ UNCHANGED <<notCust, centry, cinput>>

CustCallRemoveDuplicates == CustApply("remove_duplicates", "normalized", "deduplicated")

CustCallHandleMissingValues == CustApply("handle_missing_values", "deduplicated", "filled")

CustCallRemoveOutliers == CustApply("remove_outliers", "filled", "saved")

(***************************************************************************)
(* scripts/data_preparation/prepare_products_data.py                        *)
(***************************************************************************)
ProductID == <<"P", "r", "o", "d", "u", "c", "t", "I", "D">>

ProductName == <<"P", "r", "o", "d", "u", "c", "t", "N", "a", "m", "e">>

Category == <<"C", "a", "t", "e", "g", "o", "r", "y">>

UnitPrice == <<"U", "n", "i", "t", "P", "r", "i", "c", "e">>

\* line 130: the value that fills a missing ProductName
UnknownProduct == "Unknown Product"

\* the headers of products_data.csv: as the warehouse loader names them,
\* with stray blanks, and in lower case
RawProdHeader == <<ProductID, ProductName, Category, UnitPrice>>

BlankProdHeader ==
    <<<<" ">> \o ProductID, ProductName, Category, UnitPrice>>

LowerProdHeader ==
    <<Lower(ProductID), Lower(ProductName), Lower(Category), Lower(UnitPrice)>>

ProdHeaders == {RawProdHeader, BlankProdHeader, LowerProdHeader}

\* a products row: ProductID, ProductName, Category, UnitPrice
ProdRow(id, name, cat, price) == <<id, name, cat, price>>

\* The unit prices of the rows that have a missing cell are even, so that
\* the median of an even number of them is a whole number.
ProdRows ==
    { ProdRow(Cell(9), Cell("Pen"), Cell("Office"), Cell(20)),
      ProdRow(Cell(9), Cell("Pen"), Cell("Office"), Cell(24)),
      ProdRow(Cell(7), NaN,         Cell("Home"),   Cell(2000)),
      ProdRow(NaN,     Cell("Ink"), NaN,            Cell(20)),
      ProdRow(Cell(7), Cell("Cup"), Cell("Home"),   NaN) }

\* the products table of the outlier scenario: unit prices 10, 12, 11, 13, 1000
ScenarioProdRows ==
    << ProdRow(Cell(1), Cell("Pen"), Cell("Office"), Cell(10)),
       ProdRow(Cell(2), Cell("Ink"), Cell("Office"), Cell(12)),
       ProdRow(Cell(3), Cell("Cup"), Cell("Home"),   Cell(11)),
       ProdRow(Cell(4), Cell("Mug"), Cell("Home"),   Cell(13)),
       ProdRow(Cell(5), Cell("Pad"), Cell("Office"), Cell(1000)) >>

ProdInputs ==
    {Table(h, r) : h \in ProdHeaders,
                   r \in SeqsUpTo(ProdRows, MaxProdRows) \cup {ScenarioProdRows}}

\* line 250: df.columns.str.strip().str.replace(' ', '_')
NormalizeProductColumns(cols) ==
    [i \in DOMAIN cols |-> SpacesToUnderscores(Strip(cols[i]))]

\* A removal that does not look for the ProductID column first.
ProdRemoveDuplicatesUnguarded(df) ==
    LET k == ColumnOf(df.cols, ProductID)
    IN  IF k = 0 THEN Outcome("KeyError", df, df)
        ELSE Outcome("none",
                     Table(df.cols,
                           DropDuplicates(DropDuplicates(df.rows, {k}),
                                          DOMAIN df.cols)),
                     df)

\* lines 96-111: without a column ProductID the argument itself is returned;
\* otherwise drop_duplicates(subset=["ProductID"]) gives a new table, which
\* drop_duplicates(inplace=True) then changes.
ProdRemoveDuplicates(df) ==
    LET k == ColumnOf(df.cols, ProductID)
    IN  IF k = 0 THEN Outcome("none", df, df)
        ELSE Outcome("none",
                     Table(df.cols,
                           DropDuplicates(DropDuplicates(df.rows, {k}),
                                          DOMAIN df.cols)),
                     df)

\* the positions of the rows with a value in column c
Present(rows, c) == {i \in DOMAIN rows : rows[i][c] # NaN}

\* the value number k (from 0) of column c in ascending order
Ranked(rows, c, k) ==
    LET S == Present(rows, c)
    IN  CHOOSE v \in {rows[i][c][1] : i \in S} :
            /\ Cardinality({i \in S : rows[i][c][1] < v}) <= k
            /\ k < Cardinality({i \in S : rows[i][c][1] <= v})

\* Series.median(): NaN is skipped; NaN for a column without values
Median(rows, c) ==
    LET n == Cardinality(Present(rows, c))
    IN  IF n = 0 THEN NaN
        ELSE IF n % 2 = 1 THEN Cell(Ranked(rows, c, n \div 2))
        ELSE Cell((Ranked(rows, c, n \div 2 - 1) + Ranked(rows, c, n \div 2)) \div 2)

\* the order of the category names
CategoryOrder == <<"Home", "Office">>

\* Series.mode(): the most frequent values, sorted; the empty sequence for a
\* column without values
Mode(rows, c) ==
    LET S == Present(rows, c)
        count(v) == Cardinality({i \in S : rows[i][c] = Cell(v)})
    IN  SelectSeq(CategoryOrder,
                  LAMBDA v : count(v) > 0 /\ \A w \in {rows[i][c][1] : i \in S} :
                                                count(w) <= count(v))

\* Series.fillna(value) on column c
FillColumn(rows, c, value) ==
    [i \in DOMAIN rows |-> [rows[i] EXCEPT ![c] = IF @ = NaN THEN value ELSE @]]

\* df[column].fillna(value, inplace=True): the column taken out of the table
\* is filled; the table sees it unless pandas runs with copy-on-write.
FillInPlace(cow, rows, c, value) ==
    IF cow THEN rows ELSE FillColumn(rows, c, value)

\* A handling that drops the rows without a ProductID before it fills.
ProdHandleMissingValuesDropFirst(cow, df) ==
    LET n == ColumnOf(df.cols, ProductName)
        u == ColumnOf(df.cols, UnitPrice)
        c == ColumnOf(df.cols, Category)
        k == ColumnOf(df.cols, ProductID)
        t0 == RowsAt(df.rows, Present(df.rows, k))
        t1 == FillInPlace(cow, t0, n, Cell(UnknownProduct))
        t2 == FillInPlace(cow, t1, u, Median(t1, u))
        t3 == FillInPlace(cow, t2, c, Cell(Mode(t2, c)[1]))
    IN  IF k = 0 \/ n = 0 \/ u = 0 \/ c = 0 THEN Outcome("KeyError", df, df)
        ELSE IF Mode(t2, c) = <<>>
             THEN Outcome("KeyError", Table(df.cols, t2), Table(df.cols, t2))
        ELSE Outcome("none", Table(df.cols, t3), Table(df.cols, t3))

\* lines 123-139: every statement changes the argument, which is returned.
ProdHandleMissingValues(cow, df) ==
    LET n == ColumnOf(df.cols, ProductName)
        u == ColumnOf(df.cols, UnitPrice)
        c == ColumnOf(df.cols, Category)
        k == ColumnOf(df.cols, ProductID)
        t1 == FillInPlace(cow, df.rows, n, Cell(UnknownProduct))
        t2 == FillInPlace(cow, t1, u, Median(t1, u))
        t3 == FillInPlace(cow, t2, c, Cell(Mode(t2, c)[1]))
        t4 == RowsAt(t3, Present(t3, k))
    IN  IF n = 0 THEN Outcome("KeyError", df, df)
        ELSE IF u = 0 THEN Outcome("KeyError", Table(df.cols, t1), Table(df.cols, t1))
        ELSE IF c = 0 \/ Mode(t2, c) = <<>>
             THEN Outcome("KeyError", Table(df.cols, t2), Table(df.cols, t2))
        ELSE IF k = 0 THEN Outcome("KeyError", Table(df.cols, t3), Table(df.cols, t3))
        ELSE Outcome("none", Table(df.cols, t4), Table(df.cols, t4))

\* Series.quantile(q / 4), times 4: linear interpolation between the two
\* values around position (q / 4) * (n - 1) of the n values in ascending order
Quantile4(rows, c, q) ==
    LET n == Cardinality(Present(rows, c))
        lo == (q * (n - 1)) \div 4
        fr == (q * (n - 1)) % 4
    IN  IF fr = 0 THEN 4 * Ranked(rows, c, lo)
        ELSE 4 * Ranked(rows, c, lo)
                + fr * (Ranked(rows, c, lo + 1) - Ranked(rows, c, lo))

\* lines 162-163, times 8: Q1 - 1.5 * IQR and Q3 + 1.5 * IQR
LowerBound8(rows, c) == 5 * Quantile4(rows, c, 1) - 3 * Quantile4(rows, c, 3)

UpperBound8(rows, c) == 5 * Quantile4(rows, c, 3) - 3 * Quantile4(rows, c, 1)

\* A fence test that leaves the bounds themselves out.
ProdInFenceStrict(v, lower8, upper8) ==
    v # NaN /\ 8 * v[1] > lower8 /\ 8 * v[1] < upper8

\* line 166: (df['UnitPrice'] >= lower_bound) & (df['UnitPrice'] <= upper_bound)
ProdInFence(v, lower8, upper8) ==
    v # NaN /\ 8 * v[1] >= lower8 /\ 8 * v[1] <= upper8

\* lines 151-173: a new table of the rows inside the fences; the quantiles
\* of a column without values are NaN and no row passes
ProdRemoveOutliers(df) ==
    LET u == ColumnOf(df.cols, UnitPrice)
    IN  IF u = 0 THEN Outcome("KeyError", df, df)
        ELSE IF Present(df.rows, u) = {} THEN Outcome("none", Table(df.cols, <<>>), df)
        ELSE LET lower8 == LowerBound8(df.rows, u)
                 upper8 == UpperBound8(df.rows, u)
             IN  Outcome("none",
                         Table(df.cols,
                               RowsAt(df.rows,
                                      {i \in DOMAIN df.rows :
                                          ProdInFence(df.rows[i][u], lower8, upper8)})),
                         df)

ProdFunction(f, cow, df) ==
    CASE f = "remove_duplicates" -> ProdRemoveDuplicates(df)
      [] f = "handle_missing_values" -> ProdHandleMissingValues(cow, df)
      [] f = "remove_outliers" -> ProdRemoveOutliers(df)

InitProducts ==
    /\ pentry \in {"main", "call"}
    /\ pcow \in BOOLEAN
    /\ pinput \in ProdInputs
    /\ ptab = pinput
    /\ parg = pinput
    /\ pargNow = pinput
    /\ pcalls = <<>>
    /\ perr = "none"
    /\ ppc = IF pentry = "main" THEN "loaded" ELSE "call"
    /\ pfile = "none"

\* main(), lines 248-251: the column names are cleaned in place
ProdNormalizeColumns ==
    /\ pentry = "main"
    /\ ppc = "loaded"
    /\ ptab' = Table(NormalizeProductColumns(ptab.cols), ptab.rows)
    /\ ppc' = "normalized"
    /\ UNCHANGED <<notProd, pentry, pcow, pinput, parg, pargNow, pcalls, perr, pfile>>

\* df = f(df): in main() at position at (lines 259, 260, 262), or called by
\* itself.  When f raises, df keeps referring to the argument.  In main()
\* standardize_formats (line 261) and validate_data (line 263) return the
\* table they are given, and the table is saved after them (line 266).
ProdApply(f, at, next) ==
    /\ perr = "none"
    /\ \/ pentry = "main" /\ ppc = at
       \/ pentry = "call" /\ Len(pcalls) < MaxProdCalls
    /\ \E r \in {ProdFunction(f, pcow, ptab)} :
           /\ parg' = ptab
           /\ pargNow' = r.arg
           /\ perr' = r.err
           /\ ptab' = IF r.err = "none" THEN r.out ELSE r.arg
           /\ ppc' = IF pentry = "call" THEN "call"
                     ELSE IF r.err = "none" THEN next ELSE "raised"
           /\ pfile' = IF pentry = "main" /\ r.err = "none" /\ next = "saved"
                       THEN r.out ELSE pfile
    /\ pcalls' = Append(pcalls, f)
    /\ UNCHANGED <<notProd, pentry, pcow, pinput>>

ProdCallRemoveDuplicates == ProdApply("remove_duplicates", "normalized", "deduplicated")

ProdCallHandleMissingValues == ProdApply("handle_missing_values", "deduplicated", "filled")

ProdCallRemoveOutliers == ProdApply("remove_outliers", "filled", "saved")

(***************************************************************************)
(* scripts/etl_to_dw.py                                                     *)
(***************************************************************************)
Tables == {"customer", "product", "sale"}

\* the primary keys that occur in the warehouse and in the prepared files
Ids == {1, 2}

\* A warehouse row: its primary key and the rest of its columns.  Rows that
\* were in the warehouse before the first run carry "old", rows of the
\* prepared files carry "new".
Row(i, v) == [id |-> i, val |-> v]

EmptyDb == [t \in Tables |-> {}]

\* The warehouse before the first run: each table holds the keys 1..k.
PriorTables == {{Row(i, "old") : i \in 1..k} : k \in 0..Cardinality(Ids)}

\* The prepared files: every sequence of at most MaxBatch keys.
Batches == UNION {[1..n -> Ids] : n \in 0..MaxBatch}

KeysOf(rows) == {r.id : r \in rows}

BatchRows(b) == {Row(b[i], "new") : i \in DOMAIN b}

\* INTEGER PRIMARY KEY of the three tables: a batch can be inserted into a
\* table when no key repeats in the batch and no key is in the table.
Loadable(rows, b) ==
    /\ \A i, j \in DOMAIN b : b[i] = b[j] => i = j
    /\ \A i \in DOMAIN b : b[i] \notin KeysOf(rows)

\* DataFrame.to_sql(t, cursor.connection, if_exists="append", index=False):
\* one executemany of the whole batch inside pandas' run_transaction, which
\* commits when every row went in and rolls the connection back otherwise.
\* The result is the connection's view after the call.
ToSql(view, saved, t, b) ==
    IF Loadable(view[t], b)
    THEN [view EXCEPT ![t] = @ \cup BatchRows(b)]
    ELSE saved

\* A reset that removes one row of the table (the one with the least key).
DeleteOneFrom(view, t) ==
    [view EXCEPT ![t] = {r \in @ : \E s \in @ : s.id < r.id}]

\* cursor.execute("DELETE FROM t")
DeleteFrom(view, t) == [view EXCEPT ![t] = {}]

\* An insert_* without its except clause: a load error leaves the function.
InsertPropagatesUncaught(ok) == ~ok

\* except Exception as e: print(...)  -- no load error leaves insert_*
InsertPropagates(ok) == FALSE

InitDW ==
    /\ schema \in BOOLEAN
    /\ prior \in [Tables -> PriorTables]
    /\ schema = FALSE => prior = EmptyDb
    /\ batch \in [Tables -> Batches]
    /\ db = prior
    /\ cur = prior
    /\ conn = "unbound"
    /\ pc = "connect"
    /\ exc = "none"
    /\ deleted = <<>>
    /\ attempted = {}
    /\ loaded = {}
    /\ committed = FALSE
    /\ run = "first"
    /\ after1 = prior
    /\ faulted = FALSE

\* line 118-119: conn = sqlite3.connect(DB_PATH); cursor = conn.cursor()
Connect ==
    /\ pc = "connect"
    /\ conn' = "open"
    /\ cur' = db
    /\ pc' = "create_schema"
    /\ UNCHANGED <<notDW, db, schema, exc, deleted, attempted, loaded, committed,
                   run, after1, faulted, prior, batch>>

\* line 118 raising (the directory data/dw is missing, the file is no
\* database): the name conn is never bound.
ConnectFails ==
    /\ pc = "connect"
    /\ exc' = "OperationalError"
    /\ faulted' = TRUE
    /\ pc' = "finally"
    /\ UNCHANGED <<notDW, db, cur, schema, conn, deleted, attempted, loaded,
                   committed, run, after1, prior, batch>>

\* line 122: CREATE TABLE IF NOT EXISTS, three times; no transaction is open
\* and the statements take effect at once.
CreateSchema ==
    /\ pc = "create_schema"
    /\ schema' = TRUE
    /\ pc' = "delete_customer"
    /\ UNCHANGED <<notDW, db, cur, conn, exc, deleted, attempted, loaded, committed,
                   run, after1, faulted, prior, batch>>

\* lines 59-61, one statement at a time, in the order of the code.  The
\* first DELETE opens the transaction that the later statements join.
DeleteStatement(at, t, next) ==
    /\ pc = at
    /\ cur' = DeleteFrom(cur, t)
    /\ deleted' = Append(deleted, t)
    /\ pc' = next
    /\ UNCHANGED <<notDW, db, schema, conn, exc, attempted, loaded, committed,
                   run, after1, faulted, prior, batch>>

DeleteCustomer == DeleteStatement("delete_customer", "customer", "delete_product")

DeleteProduct == DeleteStatement("delete_product", "product", "delete_sale")

DeleteSale == DeleteStatement("delete_sale", "sale", "read_csv")

\* lines 126-128: the three pd.read_csv calls; they change nothing.
ReadPrepared ==
    /\ pc = "read_csv"
    /\ pc' = "insert_customer"
    /\ UNCHANGED <<notDW, db, cur, schema, conn, exc, deleted, attempted, loaded,
                   committed, run, after1, faulted, prior, batch>>

\* A statement of lines 122-128 raising (the database is locked or read-only,
\* a prepared file is missing or malformed): control goes to the finally.
StepFails ==
    /\ pc \in {"create_schema", "delete_customer", "delete_product",
               "delete_sale", "read_csv"}
    /\ exc' = IF pc = "read_csv" THEN "FileNotFoundError" ELSE "OperationalError"
    /\ faulted' = TRUE
    /\ pc' = "finally"
    /\ UNCHANGED <<notDW, db, cur, schema, conn, deleted, attempted, loaded,
                   committed, run, after1, prior, batch>>

\* insert_customers / insert_products / insert_sales: rename, to_sql, and the
\* except clause around both.
InsertTable(at, t, next) ==
    /\ pc = at
    /\ LET ok == Loadable(cur[t], batch[t])
           view == ToSql(cur, db, t, batch[t])
       IN  /\ cur' = view
           /\ db' = IF ok THEN view ELSE db
           /\ loaded' = IF ok THEN loaded \cup {t} ELSE loaded
           /\ attempted' = attempted \cup {t}
           /\ IF InsertPropagates(ok)
              THEN exc' = "IntegrityError" /\ pc' = "finally"
              ELSE exc' = exc /\ pc' = next
    /\ UNCHANGED <<notDW, schema, conn, deleted, committed, run, after1, faulted,
                   prior, batch>>

InsertCustomers == InsertTable("insert_customer", "customer", "insert_product")

InsertProducts == InsertTable("insert_product", "product", "insert_sale")

InsertSales == InsertTable("insert_sale", "sale", "commit")

\* line 135: conn.commit()
Commit ==
    /\ pc = "commit"
    /\ db' = cur
    /\ committed' = TRUE
    /\ pc' = "finally"
    /\ UNCHANGED <<notDW, cur, schema, conn, exc, deleted, attempted, loaded, run,
                   after1, faulted, prior, batch>>

\* lines 136-138: finally: if conn: conn.close().  Closing discards what the
\* connection has not committed.  Reading the unbound name conn raises.
Finally ==
    /\ pc = "finally"
    /\ IF conn = "unbound"
       THEN /\ exc' = "UnboundLocalError"
            /\ UNCHANGED <<notDW, conn, cur>>
       ELSE /\ conn' = "closed"
            /\ cur' = db
            /\ exc' = exc
    /\ pc' = "done"
    /\ UNCHANGED <<notDW, db, schema, deleted, attempted, loaded, committed, run,
                   after1, faulted, prior, batch>>

\* line 141 once more: the script is run a second time on the same files.
RunAgain ==
    /\ pc = "done"
    /\ run = "first"
    /\ run' = "second"
    /\ after1' = db
    /\ conn' = "unbound"
    /\ pc' = "connect"
    /\ exc' = "none"
    /\ deleted' = <<>>
    /\ attempted' = {}
    /\ loaded' = {}
    /\ committed' = FALSE
    /\ UNCHANGED <<notDW, db, cur, schema, faulted, prior, batch>>

IdleCustomers ==
    /\ centry = "idle"
    /\ cinput = Table(<<>>, <<>>)
    /\ ctab = cinput
    /\ carg = cinput
    /\ cargNow = cinput
    /\ ccalls = <<>>
    /\ cerr = "none"
    /\ cpc = "idle"
    /\ cfile = "none"

IdleDW ==
    /\ schema = FALSE
    /\ prior = EmptyDb
    /\ batch = [t \in Tables |-> <<>>]
    /\ db = prior
    /\ cur = prior
    /\ conn = "unbound"
    /\ pc = "idle"
    /\ exc = "none"
    /\ deleted = <<>>
    /\ attempted = {}
    /\ loaded = {}
    /\ committed = FALSE
    /\ run = "first"
    /\ after1 = prior
    /\ faulted = FALSE

IdleProducts ==
    /\ pentry = "idle"
    /\ pcow = FALSE
    /\ pinput = Table(<<>>, <<>>)
    /\ ptab = pinput
    /\ parg = pinput
    /\ pargNow = pinput
    /\ pcalls = <<>>
    /\ perr = "none"
    /\ ppc = "idle"
    /\ pfile = "none"

NextDW ==
    \/ Connect
    \/ ConnectFails
    \/ CreateSchema
    \/ DeleteCustomer
    \/ DeleteProduct
    \/ DeleteSale
    \/ ReadPrepared
    \/ StepFails
    \/ InsertCustomers
    \/ InsertProducts
    \/ InsertSales
    \/ Commit
    \/ Finally
    \/ RunAgain

InitWarehouse == InitDW /\ IdleCustomers /\ IdleProducts

\* one run or two of scripts/etl_to_dw.py
Spec == InitWarehouse /\ [][NextDW]_vars

InitCleaning ==
    \/ InitCustomers /\ IdleProducts /\ IdleDW
    \/ InitProducts /\ IdleCustomers /\ IdleDW

NextCleaning ==
    \/ CustNormalizeColumns
    \/ CustCallRemoveDuplicates
    \/ CustCallHandleMissingValues
    \/ CustCallRemoveOutliers
    \/ ProdNormalizeColumns
    \/ ProdCallRemoveDuplicates
    \/ ProdCallHandleMissingValues
    \/ ProdCallRemoveOutliers

\* one of the two cleaning scripts, on one input table
SpecCleaning == InitCleaning /\ [][NextCleaning]_vars

(***************************************************************************)
(* Claims about scripts/etl_to_dw.py, checked under Spec.                  *)
(***************************************************************************)

\* C1: in delete_existing_records the DELETE on sale is executed before the
\* DELETE on customer and before the DELETE on product.
C1_SaleDeletedFirst ==
    \A i \in DOMAIN deleted :
        deleted[i] \in {"customer", "product"}
            => \E j \in 1..(i - 1) : deleted[j] = "sale"

\* C2: in a run that reaches the inserts, a failed load of one table stops
\* neither the loads of the other tables nor the final commit, and the rows
\* of every table whose load succeeded are in the committed warehouse.
C2_LoadErrorsIsolated ==
    (pc = "done" /\ attempted # {})
        => /\ attempted = Tables
           /\ committed
           /\ \A t \in loaded : BatchRows(batch[t]) \subseteq db[t]

\* A finished run in which the product load failed and the two other loads,
\* of non-empty files, succeeded.
C2_Witness ==
    /\ pc = "done"
    /\ committed
    /\ loaded = {"customer", "sale"}
    /\ batch["customer"] # <<>>
    /\ batch["sale"] # <<>>
    /\ BatchRows(batch["sale"]) \subseteq db["sale"]

\* C3: on every exit path of load_data_to_db the connection is not left
\* open and the cleanup itself raises nothing.
C3_ClosedOnEveryExit ==
    pc = "done" => (conn # "open" /\ exc # "UnboundLocalError")

C5_RowCountsMatchValidRows ==
    (pc = "done" /\ committed)
        => \A t \in Tables :
              Cardinality(db[t])
                  = Cardinality({batch[t][i] : i \in DOMAIN batch[t]})

(***************************************************************************)
(* Claims about the two cleaning scripts, checked under SpecCleaning.      *)
(***************************************************************************)
LastCalls(calls, fs) ==
    /\ Len(calls) >= Len(fs)
    /\ SubSeq(calls, Len(calls) - Len(fs) + 1, Len(calls)) = fs

\* the CustomerID and AmountSpent cells of each row
IdAndAmount(rows) == [i \in DOMAIN rows |-> <<rows[i][1], rows[i][3]>>]

\* the rows that are a first occurrence among identical rows, have a
\* customer id and have an amount strictly between 200 and 10000
CleanedAsClaimed(rows) ==
    RowsAt(rows,
           {i \in DOMAIN rows :
               /\ \A j \in 1..(i - 1) : rows[j] # rows[i]
               /\ rows[i][1] # NaN
               /\ rows[i][3] # NaN
               /\ rows[i][3][1] > 200
               /\ rows[i][3][1] < 10000})

\* C6: main() of the customers script ends by saving exactly the input rows
\* that are a first occurrence, have a customer id and have an amount
\* strictly between 200 and 10000, in input order; for the scenario table
\* that is the single row with id 2 and amount 5000.
C6_CustomersPipelineOutput ==
    (centry = "main" /\ cpc \in {"saved", "raised"})
        => /\ cpc = "saved"
           /\ IdAndAmount(cfile.rows) = IdAndAmount(CleanedAsClaimed(cinput.rows))
           /\ cinput.rows = ScenarioCustRows
                 => IdAndAmount(cfile.rows) = << <<Cell(2), Cell(5000)>> >>

\* C7: every row of the table returned by handle_missing_values followed by
\* remove_outliers has a customer id and an amount strictly between 200 and
\* 10000.
C7_KeyAndRangeAfterCleaning ==
    (cerr = "none"
        /\ LastCalls(ccalls, <<"handle_missing_values", "remove_outliers">>))
        => \A i \in DOMAIN ctab.rows :
              /\ ctab.rows[i][ColumnOf(ctab.cols, CustomerID)] # NaN
              /\ ctab.rows[i][ColumnOf(ctab.cols, AmountSpent)] # NaN
              /\ ctab.rows[i][ColumnOf(ctab.cols, AmountSpent)][1] > 200
              /\ ctab.rows[i][ColumnOf(ctab.cols, AmountSpent)][1] < 10000

\* The two functions have run on a table that holds a row with amount 200,
\* lost a row and kept a row.
C7_Witness ==
    /\ cerr = "none"
    /\ ccalls = <<"handle_missing_values", "remove_outliers">>
    /\ \E i \in DOMAIN cinput.rows : cinput.rows[i][3] = Cell(200)
    /\ ctab.rows # <<>>
    /\ Len(ctab.rows) < Len(cinput.rows)

\* C8: no two rows of the table that the three customers cleaning functions
\* leave share a customer id.
C8_CustomerIdUnique ==
    (cerr = "none"
        /\ ccalls = <<"remove_duplicates", "handle_missing_values", "remove_outliers">>)
        => \A i, j \in DOMAIN ctab.rows :
              ctab.rows[i][ColumnOf(ctab.cols, CustomerID)]
                  = ctab.rows[j][ColumnOf(ctab.cols, CustomerID)] => i = j

\* C9: products remove_outliers returns exactly the rows of its argument
\* whose unit price lies in [Q1 - 1.5 IQR, Q3 + 1.5 IQR], the quartiles taken
\* over the argument; of the unit prices 10, 12, 11, 13, 1000 it removes the
\* row with 1000 and keeps the four others.
C9_IqrFence ==
    (perr = "none" /\ LastCalls(pcalls, <<"remove_outliers">>))
        => LET u == ColumnOf(parg.cols, UnitPrice)
               inside(i) ==
                   /\ parg.rows[i][u] # NaN
                   /\ 8 * parg.rows[i][u][1] >= LowerBound8(parg.rows, u)
                   /\ 8 * parg.rows[i][u][1] <= UpperBound8(parg.rows, u)
           IN  /\ ptab.rows = RowsAt(parg.rows, {i \in DOMAIN parg.rows : inside(i)})
               /\ parg.rows = ScenarioProdRows
                     => ptab.rows = SubSeq(ScenarioProdRows, 1, 4)

\* remove_outliers has run on the table with the unit prices 10, 12, 11, 13,
\* 1000 and returned four rows.
C9_Witness ==
    /\ perr = "none"
    /\ LastCalls(pcalls, <<"remove_outliers">>)
    /\ parg.rows = ScenarioProdRows
    /\ Len(ptab.rows) = 4

\* C10: remove_duplicates applied to the table remove_duplicates returned
\* returns the same rows in the same order, for customers and for products.
C10_RemoveDuplicatesIdempotent ==
    /\ (cerr = "none"
           /\ LastCalls(ccalls, <<"remove_duplicates", "remove_duplicates">>))
           => ctab = carg
    /\ (perr = "none"
           /\ LastCalls(pcalls, <<"remove_duplicates", "remove_duplicates">>))
           => ptab = parg

\* Products remove_duplicates has run twice on a table from which the first
\* run removed a row.
C10_Witness ==
    /\ perr = "none"
    /\ pcalls = <<"remove_duplicates", "remove_duplicates">>
    /\ ColumnOf(pinput.cols, ProductID) # 0
    /\ Len(parg.rows) < Len(pinput.rows)
    /\ ptab = parg

\* every row of arg whose cells in the columns of subset occur in no other
\* row of arg is a row of out
UniqueKeyRowsKept(arg, out, subset) ==
    \A i \in DOMAIN arg :
        (\A j \in DOMAIN arg \ {i} : \E c \in subset : arg[j][c] # arg[i][c])
            => \E m \in DOMAIN out : out[m] = arg[i]

\* C11: remove_duplicates never returns more rows than it was given, and
\* every row it was given whose key (the whole row for customers, the
\* ProductID cell for products) occurs once is among the rows it returns.
C11_UniqueRowsSurvive ==
    /\ (cerr = "none" /\ LastCalls(ccalls, <<"remove_duplicates">>))
           => /\ Len(ctab.rows) <= Len(carg.rows)
              /\ UniqueKeyRowsKept(carg.rows, ctab.rows, DOMAIN carg.cols)
    /\ (perr = "none" /\ LastCalls(pcalls, <<"remove_duplicates">>))
           => /\ Len(ptab.rows) <= Len(parg.rows)
              /\ LET k == ColumnOf(parg.cols, ProductID)
                 IN  IF k = 0
                     THEN \A i \in DOMAIN parg.rows :
                              \E m \in DOMAIN ptab.rows :
                                  ptab.rows[m] = parg.rows[i]
                     ELSE UniqueKeyRowsKept(parg.rows, ptab.rows, {k})

\* Customers remove_duplicates has run on the scenario table, whose first
\* two rows are equal, and returned the three distinct rows.
C11_Witness ==
    /\ cerr = "none"
    /\ LastCalls(ccalls, <<"remove_duplicates">>)
    /\ carg.rows = ScenarioCustRows
    /\ Len(ctab.rows) = 3
    /\ UniqueKeyRowsKept(carg.rows, ctab.rows, DOMAIN carg.cols)

\* the first position of rows whose cell in column k is key
FirstWithKey(rows, k, key) ==
    CHOOSE i \in DOMAIN rows :
        rows[i][k] = key /\ \A j \in 1..(i - 1) : rows[j][k] # key

\* C12: products remove_duplicates returns, for every ProductID of the
\* table it was given, exactly one row, namely the first row with that
\* ProductID, and no row with another ProductID; the rows 9 at price 20 and
\* 9 at price 24 become the row at price 20.
C12_FirstRowPerProductId ==
    (perr = "none"
        /\ LastCalls(pcalls, <<"remove_duplicates">>)
        /\ ColumnOf(parg.cols, ProductID) # 0)
        => LET k == ColumnOf(parg.cols, ProductID)
           IN  /\ \A i \in DOMAIN parg.rows :
                     LET kept == {m \in DOMAIN ptab.rows :
                                     ptab.rows[m][k] = parg.rows[i][k]}
                     IN  /\ Cardinality(kept) = 1
                         /\ \A m \in kept :
                               ptab.rows[m] =
                                   parg.rows[FirstWithKey(parg.rows, k,
                                                          parg.rows[i][k])]
               /\ \A m \in DOMAIN ptab.rows :
                     \E i \in DOMAIN parg.rows :
                         parg.rows[i][k] = ptab.rows[m][k]

\* Products remove_duplicates has run on the two rows with ProductID 9, at
\* price 20 and then at price 24, and returned the row at price 20.
C12_Witness ==
    /\ perr = "none"
    /\ LastCalls(pcalls, <<"remove_duplicates">>)
    /\ ColumnOf(parg.cols, ProductID) # 0
    /\ parg.rows = << ProdRow(Cell(9), Cell("Pen"), Cell("Office"), Cell(20)),
                      ProdRow(Cell(9), Cell("Pen"), Cell("Office"), Cell(24)) >>
    /\ ptab.rows = << ProdRow(Cell(9), Cell("Pen"), Cell("Office"), Cell(20)) >>

\* the table lacks a column that the customers function f reads
CustLacksColumn(f, cols) ==
    \/ f = "handle_missing_values"
          /\ (ColumnOf(cols, Name) = 0 \/ ColumnOf(cols, CustomerID) = 0)
    \/ f = "remove_outliers" /\ ColumnOf(cols, AmountSpent) = 0

\* the table lacks a column that the products function f reads
ProdLacksColumn(f, cols) ==
    \/ f = "handle_missing_values"
          /\ \E name \in {ProductName, UnitPrice, Category, ProductID} :
                 ColumnOf(cols, name) = 0
    \/ f = "remove_outliers" /\ ColumnOf(cols, UnitPrice) = 0

\* C13: handle_missing_values or remove_outliers called on a table that
\* lacks a column the function reads raises an error and leaves the table it
\* was given as it was: no fill made before the error shows on it.
C13_FailureLeavesTableUnmodified ==
    /\ (ccalls # <<>> /\ CustLacksColumn(ccalls[Len(ccalls)], carg.cols))
           => cerr # "none" /\ cargNow = carg
    /\ (pcalls # <<>> /\ ProdLacksColumn(pcalls[Len(pcalls)], parg.cols))
           => perr # "none" /\ pargNow = parg

\* C14: when remove_duplicates, handle_missing_values or remove_outliers
\* returns, for customers and for products, the table that the caller passed
\* in has the rows and the cell values it had before the call.
C14_ArgumentNotMutated ==
    /\ (ccalls # <<>> /\ cerr = "none") => cargNow = carg
    /\ (pcalls # <<>> /\ perr = "none") => pargNow = parg

\* C15: in both scripts the columns are normalized before any cleaning
\* function is called, every column name the functions read is left as it is
\* by the script's normalization, and so a table loaded with the raw headers
\* goes from the normalization through every function without an error for
\* a missing column.
C15_RulesReadCanonicalNames ==
    /\ (centry = "main" /\ cpc = "loaded") => ccalls = <<>>
    /\ (pentry = "main" /\ ppc = "loaded") => pcalls = <<>>
    /\ (centry = "main" /\ cpc # "loaded" /\ cinput.cols = RawCustHeader)
           => /\ cerr = "none"
              /\ \A name \in {CustomerID, Name, AmountSpent} :
                    /\ NormalizeCustomerColumns(<<name>>) = <<name>>
                    /\ ColumnOf(ctab.cols, name) # 0
    /\ (pentry = "main" /\ ppc # "loaded" /\ pinput.cols = RawProdHeader)
           => /\ \A name \in {ProductID, ProductName, Category, UnitPrice} :
                    /\ NormalizeProductColumns(<<name>>) = <<name>>
                    /\ ColumnOf(ptab.cols, name) # 0
              /\ ppc # "raised"
                    \/ ~ProdLacksColumn(pcalls[Len(pcalls)], parg.cols)

\* C16: products remove_duplicates called on a table without the ProductID
\* column raises no error and returns the rows it was given, all of them and
\* in their order, and main() goes on to the next step.
C16_MissingKeyColumnTolerated ==
    (LastCalls(pcalls, <<"remove_duplicates">>)
        /\ ColumnOf(parg.cols, ProductID) = 0)
        => /\ perr = "none"
           /\ ptab = parg
           /\ pargNow = parg
           /\ pentry = "main" => ppc = "deduplicated"

\* main() of the products script has called remove_duplicates on a table
\* without the ProductID column in which a row repeats, and stands before
\* handle_missing_values with every row still there.
C16_Witness ==
    /\ pentry = "main"
    /\ ppc = "deduplicated"
    /\ perr = "none"
    /\ ColumnOf(parg.cols, ProductID) = 0
    /\ Duplicated(parg.rows, DOMAIN parg.cols) # {}
    /\ ptab.rows = parg.rows

\* the order of the cleaning functions in main()
StepOrder == <<"remove_duplicates", "handle_missing_values", "remove_outliers">>

\* the rows of a products table with every fill made on all of them: the
\* constant in column n, the median of column u, the first mode of column c
ProdAllFilled(rows, n, u, c) ==
    LET t1 == FillColumn(rows, n, Cell(UnknownProduct))
        t2 == FillColumn(t1, u, Median(rows, u))
    IN  FillColumn(t2, c, Cell(Mode(rows, c)[1]))

\* C17: main() of both scripts normalizes the columns before it calls a
\* cleaning function and calls the functions in the order remove_duplicates,
\* handle_missing_values, remove_outliers; handle_missing_values makes every
\* fill (Name, ProductName, median UnitPrice, mode Category) on all the rows
\* it was given, the rows without a key included, and drops those rows
\* afterwards.
C17_StepsInFixedOrder ==
    /\ centry = "main"
           => /\ cpc = "loaded" => ccalls = <<>>
              /\ Len(ccalls) <= Len(StepOrder)
              /\ ccalls = SubSeq(StepOrder, 1, Len(ccalls))
    /\ pentry = "main"
           => /\ ppc = "loaded" => pcalls = <<>>
              /\ Len(pcalls) <= Len(StepOrder)
              /\ pcalls = SubSeq(StepOrder, 1, Len(pcalls))
    /\ (cerr = "none" /\ LastCalls(ccalls, <<"handle_missing_values">>))
           => LET n == ColumnOf(carg.cols, Name)
                  k == ColumnOf(carg.cols, CustomerID)
              IN  /\ \A i \in DOMAIN carg.rows :
                        carg.rows[i][k] = NaN => cargNow.rows[i][n] # NaN
                  /\ ctab.rows =
                        RowsAt(FillColumn(carg.rows, n, Cell(Unknown)),
                               Present(carg.rows, k))
    /\ (perr = "none" /\ ~pcow
           /\ LastCalls(pcalls, <<"handle_missing_values">>))
           => ptab.rows =
                  RowsAt(ProdAllFilled(parg.rows,
                                       ColumnOf(parg.cols, ProductName),
                                       ColumnOf(parg.cols, UnitPrice),
                                       ColumnOf(parg.cols, Category)),
                         Present(parg.rows, ColumnOf(parg.cols, ProductID)))

\* main() of the products script has run to the end on three rows: one
\* without a ProductID at price 20, one without a price, one at price 24.
\* The missing price became 22, the median with the row that was dropped.
C17_Witness ==
    /\ pentry = "main"
    /\ ppc = "saved"
    /\ pcalls = StepOrder
    /\ pinput.rows = << ProdRow(NaN, Cell("Ink"), NaN, Cell(20)),
                        ProdRow(Cell(7), Cell("Cup"), Cell("Home"), NaN),
                        ProdRow(Cell(9), Cell("Pen"), Cell("Office"), Cell(24)) >>
    /\ pfile.rows = << ProdRow(Cell(7), Cell("Cup"), Cell("Home"), Cell(22)),
                       ProdRow(Cell(9), Cell("Pen"), Cell("Office"), Cell(24)) >>

====
